---- MODULE Spec2Model ----
(***************************************************************************)
(* Model of the workout controller (src/unnamed/part_000): the             *)
(* generateWorkout request handler, its race between the external model    *)
(* call and the API_TIMEOUT timer, and the staged recovery of a JSON value *)
(* from the model's text.                                                  *)
(*                                                                         *)
(* A text is a sequence of lexical tokens.  Every token stands for one     *)
(* character, except FENCE (three backticks), JSONTAG (the word json),     *)
(* and the JSON literals null and true.                                    *)
(***************************************************************************)
EXTENDS Integers, Sequences, FiniteSets, TLC

\* ------------------------------------------------------------------------
\* Tokens
\* ------------------------------------------------------------------------
LBRACE  == "{"
RBRACE  == "}"
LBRACK  == "["
RBRACK  == "]"
COLON   == ":"
COMMA   == ","
DQ      == "U+0022"
SQ      == "U+0027"
LDQ     == "U+201C"
RDQ     == "U+201D"
LSQ     == "U+2018"
RSQ     == "U+2019"
FENCE   == "FENCE"
JSONTAG == "json"
SP      == " "
NL      == "U+000A"
LETTER  == "a"
DIGIT   == "1"
NULLLIT == "null"
TRUELIT == "true"

\* Characters matched by \s in the regular expressions and skipped as
\* insignificant whitespace by JSON.parse.
IsWs(c) == c \in {SP, NL}

\* ------------------------------------------------------------------------
\* JSON values (what JSON.parse returns).  Every value is a record of the
\* same shape: t is the type, n the number, s the characters of a string,
\* k the keys of an object in insertion order, e the elements of an array
\* or the values of an object's keys.
\* ------------------------------------------------------------------------
JNull    == [t |-> "null", n |-> 0, s |-> <<>>, k |-> <<>>, e |-> <<>>]
JTrue    == [t |-> "true", n |-> 0, s |-> <<>>, k |-> <<>>, e |-> <<>>]
JNum(x)  == [t |-> "num",  n |-> x, s |-> <<>>, k |-> <<>>, e |-> <<>>]
JStr(cs) == [t |-> "str",  n |-> 0, s |-> cs,   k |-> <<>>, e |-> <<>>]
JArr(es) == [t |-> "arr",  n |-> 0, s |-> <<>>, k |-> <<>>, e |-> es]
JObj(ks, es) == [t |-> "obj", n |-> 0, s |-> <<>>, k |-> ks, e |-> es]

\* A property assignment obj[key] = val: a key already present keeps its
\* position and takes the new value.
ObjPut(obj, key, val) ==
  IF \E i \in 1..Len(obj.k) : obj.k[i] = key
    THEN LET i == CHOOSE j \in 1..Len(obj.k) : obj.k[j] = key
         IN  [obj EXCEPT !.e[i] = val]
    ELSE [obj EXCEPT !.k = Append(@, key), !.e = Append(@, val)]

\* ------------------------------------------------------------------------
\* JSON.parse
\* ------------------------------------------------------------------------
\* A parse step's result: ok, the value v, and p, the position after it.
PFail == [ok |-> FALSE, v |-> JNull, p |-> 0]
POk(val, pos) == [ok |-> TRUE, v |-> val, p |-> pos]

\* The first position at or after i that holds no whitespace.
RECURSIVE SkipWs(_, _)
SkipWs(txt, i) ==
  IF i <= Len(txt) /\ IsWs(txt[i]) THEN SkipWs(txt, i + 1) ELSE i

\* The position of the first c at or after i, or 0.
RECURSIVE IndexFrom(_, _, _)
IndexFrom(txt, c, i) ==
  IF i > Len(txt) THEN 0
  ELSE IF txt[i] = c THEN i
  ELSE IndexFrom(txt, c, i + 1)

\* A string literal opening at txt[i] = DQ: it runs to the next DQ and must
\* not hold a raw line break.
ParseString(txt, i) ==
  LET j == IndexFrom(txt, DQ, i + 1)
  IN  IF j = 0 \/ (\E m \in (i + 1)..(j - 1) : txt[m] = NL)
        THEN PFail
        ELSE POk(JStr(SubSeq(txt, i + 1, j - 1)), j + 1)

\* A number opening at txt[i] = DIGIT: a run of digits, read in base ten.
RECURSIVE ParseNumber(_, _, _)
ParseNumber(txt, i, acc) ==
  IF i <= Len(txt) /\ txt[i] = DIGIT
    THEN ParseNumber(txt, i + 1, 10 * acc + 1)
    ELSE POk(JNum(acc), i)

RECURSIVE ParseValue(_, _)
RECURSIVE ParseMembers(_, _, _)
RECURSIVE ParseElements(_, _, _)

\* The members of an object after "{" or ",": string ":" value, then "," or "}".
ParseMembers(txt, i0, obj) ==
  LET i == SkipWs(txt, i0)
  IN  IF i > Len(txt) \/ txt[i] # DQ THEN PFail
      ELSE
        LET key == ParseString(txt, i)
        IN  IF ~key.ok THEN PFail
            ELSE
              LET c == SkipWs(txt, key.p)
              IN  IF c > Len(txt) \/ txt[c] # COLON THEN PFail
                  ELSE
                    LET val == ParseValue(txt, c + 1)
                    IN  IF ~val.ok THEN PFail
                        ELSE
                          LET d == SkipWs(txt, val.p)
                              o == ObjPut(obj, key.v.s, val.v)
                          IN  IF d > Len(txt) THEN PFail
                              ELSE IF txt[d] = RBRACE THEN POk(o, d + 1)
                              ELSE IF txt[d] = COMMA THEN ParseMembers(txt, d + 1, o)
                              ELSE PFail

\* The elements of an array after "[" or ",": value, then "," or "]".
ParseElements(txt, i0, es) ==
  LET val == ParseValue(txt, i0)
  IN  IF ~val.ok THEN PFail
      ELSE
        LET d == SkipWs(txt, val.p)
        IN  IF d > Len(txt) THEN PFail
            ELSE IF txt[d] = RBRACK THEN POk(JArr(Append(es, val.v)), d + 1)
            ELSE IF txt[d] = COMMA THEN ParseElements(txt, d + 1, Append(es, val.v))
            ELSE PFail

ParseValue(txt, i0) ==
  LET i == SkipWs(txt, i0)
  IN  IF i > Len(txt) THEN PFail
      ELSE IF txt[i] = LBRACE THEN
        LET j == SkipWs(txt, i + 1)
        IN  IF j <= Len(txt) /\ txt[j] = RBRACE
              THEN POk(JObj(<<>>, <<>>), j + 1)
              ELSE ParseMembers(txt, i + 1, JObj(<<>>, <<>>))
      ELSE IF txt[i] = LBRACK THEN
        LET j == SkipWs(txt, i + 1)
        IN  IF j <= Len(txt) /\ txt[j] = RBRACK
              THEN POk(JArr(<<>>), j + 1)
              ELSE ParseElements(txt, i + 1, <<>>)
      ELSE IF txt[i] = DQ THEN ParseString(txt, i)
      ELSE IF txt[i] = DIGIT THEN ParseNumber(txt, i, 0)
      ELSE IF txt[i] = NULLLIT THEN POk(JNull, i + 1)
      ELSE IF txt[i] = TRUELIT THEN POk(JTrue, i + 1)
      ELSE PFail

\* JSON.parse(txt): one value, whitespace around it, nothing else.  ok is
\* FALSE where JSON.parse throws a SyntaxError.
JSONParse(txt) ==
  LET r == ParseValue(txt, 1)
  IN  IF r.ok /\ SkipWs(txt, r.p) > Len(txt) THEN r ELSE PFail

\* ------------------------------------------------------------------------
\* Response recovery (lines 98-132)
\* ------------------------------------------------------------------------
RECURSIVE LastIndex(_, _, _)
\* The position of the last c at or before i, or 0.
LastIndex(txt, c, i) ==
  IF i < 1 THEN 0
  ELSE IF txt[i] = c THEN i
  ELSE LastIndex(txt, c, i - 1)

RECURSIVE SkipWsBack(_, _)
\* The last position at or before i that holds no whitespace (0 if none).
SkipWsBack(txt, i) ==
  IF i >= 1 /\ IsWs(txt[i]) THEN SkipWsBack(txt, i - 1) ELSE i

\* text.match of the fence pattern: an opening fence, an optional json tag,
\* whitespace, the shortest interior, whitespace, a closing fence.  The
\* match starts at the first fence that has another fence after it; the
\* interior stops before the first fence that follows it and loses the
\* whitespace at both ends.
FenceMatch(text) ==
  LET open == IndexFrom(text, FENCE, 1)
      tag  == IF open # 0 /\ open < Len(text) /\ text[open + 1] = JSONTAG
                THEN open + 2 ELSE open + 1
      from == SkipWs(text, tag)
      shut == IF open = 0 THEN 0 ELSE IndexFrom(text, FENCE, from)
  IN  IF shut = 0
        THEN [found |-> FALSE, interior |-> <<>>]
        ELSE [found |-> TRUE,
              interior |-> SubSeq(text, from, SkipWsBack(text, shut - 1))]

\* jsonText: the fence's interior, or the whole text when there is no fence.
Candidate(text) ==
  LET m == FenceMatch(text)
  IN  IF m.found THEN m.interior ELSE text

\* cleanedText: curly double quotes become straight double quotes, curly
\* single quotes become straight single quotes.
Sanitize(jsonText) ==
  [i \in 1..Len(jsonText) |->
     IF jsonText[i] \in {LDQ, RDQ} THEN DQ
     ELSE IF jsonText[i] \in {LSQ, RSQ} THEN SQ
     ELSE jsonText[i]]

\* A variant of BraceSpan with a lazy pattern: the first "{" through the
\* first "}" after it.
BraceSpan_FirstClose(text) ==
  LET first == IndexFrom(text, LBRACE, 1)
      shut  == IF first = 0 THEN 0 ELSE IndexFrom(text, RBRACE, first)
  IN  IF shut = 0
        THEN [found |-> FALSE, span |-> <<>>]
        ELSE [found |-> TRUE, span |-> SubSeq(text, first, shut)]

\* text.match of the brace pattern: the first "{" through the last "}".
BraceSpan(text) ==
  LET first == IndexFrom(text, LBRACE, 1)
      last  == LastIndex(text, RBRACE, Len(text))
  IN  IF first = 0 \/ last < first
        THEN [found |-> FALSE, span |-> <<>>]
        ELSE [found |-> TRUE, span |-> SubSeq(text, first, last)]

\* ------------------------------------------------------------------------
\* Responses.  status 0 is "nothing sent"; json is the body of a 200
\* response, error and details are the body of an error response.
\* ------------------------------------------------------------------------
NoResponse == [status |-> 0, error |-> "", details |-> "", json |-> JNull]

OkResponse(val) == [status |-> 200, error |-> "", details |-> "", json |-> val]

ErrorResponse(code, err, det) ==
  [status |-> code, error |-> err, details |-> det, json |-> JNull]

MissingFieldsResponse == ErrorResponse(400, "Missing required fields", "")

FormatErrorResponse ==
  ErrorResponse(500, "Failed to generate a valid workout plan",
                "The AI generated an invalid response format")

TimeoutResponse ==
  ErrorResponse(504, "Request timed out",
    "The workout plan generation is taking too long. Please try again.")

\* A thrown value: isError says whether it is an instance of Error.
InternalErrorResponse(thrown) ==
  ErrorResponse(500, "Failed to generate workout plan",
                IF thrown.isError THEN thrown.message ELSE "Unknown error")

\* Console messages.
LogParseError   == "Error parsing Gemini response as JSON:"
LogRawResponse  == "Raw response:"
LogLastAttempt  == "Final parsing attempt failed:"
LogTimedOut     == "API request timed out:"
LogHandlerError == "Error in generate-workout API:"

\* Lines 104-110: parse jsonText, and on a SyntaxError parse cleanedText.
ParseCandidate(jsonText) ==
  LET direct == JSONParse(jsonText)
  IN  IF direct.ok THEN direct ELSE JSONParse(Sanitize(jsonText))

\* A variant of LastAttempt without the try around the last JSON.parse: its
\* SyntaxError reaches the catch of line 133.
LastAttempt_Uncaught(text) ==
  LET m == BraceSpan(text)
      r == JSONParse(m.span)
  IN  IF m.found /\ r.ok
        THEN [response |-> OkResponse(r.v),
              log |-> <<LogParseError, LogRawResponse>>]
      ELSE IF m.found
        THEN [response |-> TimeoutResponse,
              log |-> <<LogParseError, LogRawResponse, LogTimedOut>>]
      ELSE [response |-> FormatErrorResponse,
            log |-> <<LogParseError, LogRawResponse>>]

\* Lines 113-131: the catch of a failed ParseCandidate.
LastAttempt(text) ==
  LET m == BraceSpan(text)
      r == JSONParse(m.span)
  IN  IF m.found /\ r.ok
        THEN [response |-> OkResponse(r.v),
              log |-> <<LogParseError, LogRawResponse>>]
        ELSE [response |-> FormatErrorResponse,
              log |-> IF m.found
                        THEN <<LogParseError, LogRawResponse, LogLastAttempt>>
                        ELSE <<LogParseError, LogRawResponse>>]

\* A variant of RecoverResponse that scans for braces first and parses the
\* candidate only when the scan yields nothing.
RecoverResponse_BraceFirst(text) ==
  LET r == ParseCandidate(Candidate(text))
  IN  IF LastAttempt(text).response.status = 200 \/ ~r.ok
        THEN LastAttempt(text)
        ELSE [response |-> OkResponse(r.v), log |-> <<>>]

\* Lines 98-132: the response to the model's text, and what is logged.
RecoverResponse(text) ==
  LET r == ParseCandidate(Candidate(text))
  IN  IF r.ok
        THEN [response |-> OkResponse(r.v), log |-> <<>>]
        ELSE LastAttempt(text)

\* ------------------------------------------------------------------------
\* Bounds and constants
\* ------------------------------------------------------------------------
API_TIMEOUT == 50000

\* The clock advances in steps of TickMs up to MaxTime (milliseconds since
\* the handler was entered).
TickMs  == 25000
MaxTime == 100000

\* The longest availableDays array, and the longest string of a JSON value
\* the model's text is built from.
MaxDays   == 2
MaxStrLen == 3

\* ------------------------------------------------------------------------
\* Request bodies (line 29).  A field is "undefined" (absent), a falsy
\* value ("" or 0), or "value" (any truthy value).
\* ------------------------------------------------------------------------
IsFalsy(x) == x \in {"undefined", "", "0"}

\* The sequences over S of length at most n.
SeqsUpTo(S, n) == UNION {[1..m -> S] : m \in 0..n}

\* An element of availableDays; a missing day or timeOfDay is "undefined".
DaySlots ==
  [day : {"monday", "undefined"}, hours : {1}, timeOfDay : {"array", "undefined"}]

\* availableDays: absent, an array of slots, or a truthy value that is no
\* array (a string).
AvailableDaysValues ==
  {[kind |-> "undefined", slots |-> <<>>], [kind |-> "string", slots |-> <<>>]}
    \cup {[kind |-> "array", slots |-> ss] : ss \in SeqsUpTo(DaySlots, MaxDays)}

Bodies ==
  [name : {"undefined", "", "value"},
   age : {"undefined", "0", "value"},
   position : {"undefined", "value"},
   level : {"", "value"},
   improvement : {"undefined", "", "value"},
   availableDays : AvailableDaysValues]

\* A variant of MissingFields without the length test on availableDays.
MissingFields_NoLengthCheck(b) ==
  \/ IsFalsy(b.name)
  \/ IsFalsy(b.age)
  \/ IsFalsy(b.position)
  \/ IsFalsy(b.level)
  \/ IsFalsy(b.improvement)
  \/ b.availableDays.kind = "undefined"

\* Line 31: the condition of the 400 response.
MissingFields(b) ==
  \/ IsFalsy(b.name)
  \/ IsFalsy(b.age)
  \/ IsFalsy(b.position)
  \/ IsFalsy(b.level)
  \/ IsFalsy(b.improvement)
  \/ b.availableDays.kind = "undefined"
  \/ (b.availableDays.kind = "array" /\ Len(b.availableDays.slots) = 0)

\* Lines 43-85: the prompt, or the TypeError its template throws: map on a
\* value that is no array, charAt on a missing day, join on a missing
\* timeOfDay.
TypeError(msg) == [isError |-> TRUE, message |-> msg]

Capitalize(day) == IF day = "monday" THEN "Monday" ELSE day

BuildPrompt(b) ==
  LET days == b.availableDays
      bad  == {i \in 1..Len(days.slots) :
                 days.slots[i].day = "undefined"
                   \/ days.slots[i].timeOfDay = "undefined"}
      i0   == CHOOSE i \in bad : \A j \in bad : i <= j
  IN  IF days.kind # "array"
        THEN [threw |-> TRUE,
              error |-> TypeError("availableDays.map is not a function"),
              lines |-> <<>>]
      ELSE IF bad # {}
        THEN [threw |-> TRUE,
              error |-> IF days.slots[i0].day = "undefined"
                          THEN TypeError("Cannot read properties of undefined (reading 'charAt')")
                          ELSE TypeError("Cannot read properties of undefined (reading 'join')"),
              lines |-> <<>>]
      ELSE [threw |-> FALSE,
            error |-> TypeError(""),
            lines |-> [i \in 1..Len(days.slots) |->
                         [day |-> Capitalize(days.slots[i].day),
                          hours |-> days.slots[i].hours]]]

\* ------------------------------------------------------------------------
\* State
\* ------------------------------------------------------------------------
VARIABLES
  body,        \* req.body
  modelText,   \* the text the model's result yields when it is read
  pc,          \* "start", "awaiting" (at the await of line 89), "done"
  call,        \* the promise of generateContent: "none", "pending",
               \* "fulfilled", "rejected"
  timer,       \* the timer of createTimeout: "none", "armed", "fired"
  race,        \* the promise of Promise.race: "none", "pending", "call", "timer"
               \* (settled by the call, settled by the timer)
  outcome,     \* how the call settled: "", "text", "textThrows", "rejected"
  now,         \* milliseconds since the handler was entered
  firedAt,     \* the time the timer fired, -1 before
  response,    \* the response sent
  sent,        \* the number of responses sent
  modelCalls,  \* the number of generateContent invocations
  prompt,      \* the days rendered into the prompt of the last invocation
  log          \* the console messages

vars == <<body, modelText, pc, call, timer, race, outcome, now, firedAt,
          response, sent, modelCalls, prompt, log>>

\* res.status(..).json(..) / res.json(..)
Send(r) == response' = r /\ sent' = sent + 1

\* Values a rejected generateContent carries: an Error, or something thrown
\* that is not an Error.
Rejections ==
  {[isError |-> TRUE, message |-> "fetch failed"],
   [isError |-> FALSE, message |-> ""]}

InitWith(texts, bodies) ==
  /\ body \in bodies
  /\ modelText \in texts
  /\ pc = "start"
  /\ call = "none"
  /\ timer = "none"
  /\ race = "none"
  /\ outcome = ""
  /\ now = 0
  /\ firedAt = -1
  /\ response = NoResponse
  /\ sent = 0
  /\ modelCalls = 0
  /\ prompt = <<>>
  /\ log = <<>>

\* ------------------------------------------------------------------------
\* generateWorkout up to its first await (lines 28-92)
\* ------------------------------------------------------------------------
\* Lines 31-35.
RejectMissing ==
  /\ pc = "start"
  /\ MissingFields(body)
  /\ Send(MissingFieldsResponse)
  /\ pc' = "done"
  /\ UNCHANGED <<body, modelText, call, timer, race, outcome, now, firedAt,
                 modelCalls, prompt, log>>

\* Lines 43-85 throw, lines 140-147 catch.
PromptThrows ==
  /\ pc = "start"
  /\ ~MissingFields(body)
  /\ BuildPrompt(body).threw
  /\ Send(InternalErrorResponse(BuildPrompt(body).error))
  /\ log' = Append(log, LogHandlerError)
  /\ pc' = "done"
  /\ UNCHANGED <<body, modelText, call, timer, race, outcome, now, firedAt,
                 modelCalls, prompt>>

\* Lines 89-92: generateContent is invoked, the timer is armed, and the
\* handler waits for the race.
StartRace ==
  /\ pc = "start"
  /\ ~MissingFields(body)
  /\ ~BuildPrompt(body).threw
  /\ prompt' = BuildPrompt(body).lines
  /\ modelCalls' = modelCalls + 1
  /\ call' = "pending"
  /\ timer' = "armed"
  /\ race' = "pending"
  /\ pc' = "awaiting"
  /\ UNCHANGED <<body, modelText, outcome, now, firedAt, response, sent, log>>

\* ------------------------------------------------------------------------
\* The continuations of the await (lines 93-139).  A settled promise's
\* reactions run before the next timer or I/O callback, so the step that
\* settles the race also runs the handler to its return.
\* ------------------------------------------------------------------------
\* Lines 133-138: the catch around the race, the reading of the text and
\* the recovery.
CatchTimeoutError ==
  [response |-> TimeoutResponse, log |-> <<LogTimedOut>>]

\* The handler's continuation when the race is settled by the call with a
\* readable text (lines 95-132).
OnText(text) == RecoverResponse(text)

\* The handler's continuation when the race is rejected, or reading the
\* result throws (lines 95-96): control passes to the catch of line 133.
OnThrow(thrown) == CatchTimeoutError

\* A variant of Continue in which every settling promise resumes the
\* handler, as if each were awaited on its own.
Continue_EverySettle(winner, result) ==
  /\ race' = winner
  /\ Send(result.response)
  /\ log' = log \o result.log
  /\ pc' = "done"

\* Promise.race: the first promise to settle settles the race; a promise
\* that settles later changes nothing.
Continue(winner, result) ==
  IF race = "pending"
    THEN /\ race' = winner
         /\ Send(result.response)
         /\ log' = log \o result.log
         /\ pc' = "done"
    ELSE UNCHANGED <<race, response, sent, log, pc>>

\* generateContent fulfils and response.text() returns modelText.
ModelFulfil ==
  /\ call = "pending"
  /\ call' = "fulfilled"
  /\ outcome' = "text"
  /\ Continue("call", OnText(modelText))
  /\ UNCHANGED <<body, modelText, timer, now, firedAt, modelCalls, prompt>>

\* generateContent fulfils and response.text() throws.
ModelTextThrows ==
  /\ call = "pending"
  /\ call' = "fulfilled"
  /\ outcome' = "textThrows"
  /\ \E thrown \in Rejections : Continue("call", OnThrow(thrown))
  /\ UNCHANGED <<body, modelText, timer, now, firedAt, modelCalls, prompt>>

\* generateContent rejects.
ModelReject ==
  /\ call = "pending"
  /\ call' = "rejected"
  /\ outcome' = "rejected"
  /\ \E thrown \in Rejections : Continue("call", OnThrow(thrown))
  /\ UNCHANGED <<body, modelText, timer, now, firedAt, modelCalls, prompt>>

\* A variant of TimerDue for a timer armed without its delay.
TimerDue_NoDelay == timer = "armed"

\* Lines 21-25: the timer fires API_TIMEOUT ms after it was armed and
\* rejects the timeout promise.
TimerDue == timer = "armed" /\ now >= API_TIMEOUT

TimerFire ==
  /\ TimerDue
  /\ timer' = "fired"
  /\ firedAt' = now
  /\ Continue("timer", OnThrow(TypeError("Request timed out after 50000ms")))
  /\ UNCHANGED <<body, modelText, call, outcome, now, modelCalls, prompt>>

\* Time passes; a due timer fires before more time passes.
Tick ==
  /\ pc # "start"
  /\ ~TimerDue
  /\ now + TickMs <= MaxTime
  /\ now' = now + TickMs
  /\ UNCHANGED <<body, modelText, pc, call, timer, race, outcome, firedAt,
                 response, sent, modelCalls, prompt, log>>

\* ------------------------------------------------------------------------
\* The model's texts
\* ------------------------------------------------------------------------
\* JSON.stringify of a value whose numbers are written with the digit 1
\* and whose strings need no escape.
RECURSIVE Ones(_)
Ones(x) == IF x < 10 THEN <<DIGIT>> ELSE Ones(x \div 10) \o <<DIGIT>>

RECURSIVE Stringify(_)
RECURSIVE StringifyItems(_, _)
StringifyItems(v, i) ==
  IF i > Len(v.e) THEN <<>>
  ELSE (IF i > 1 THEN <<COMMA>> ELSE <<>>)
         \o (IF v.t = "obj" THEN <<DQ>> \o v.k[i] \o <<DQ, COLON>> ELSE <<>>)
         \o Stringify(v.e[i])
         \o StringifyItems(v, i + 1)

Stringify(v) ==
  CASE v.t = "null" -> <<NULLLIT>>
    [] v.t = "true" -> <<TRUELIT>>
    [] v.t = "num"  -> Ones(v.n)
    [] v.t = "str"  -> <<DQ>> \o v.s \o <<DQ>>
    [] v.t = "arr"  -> <<LBRACK>> \o StringifyItems(v, 1) \o <<RBRACK>>
    [] v.t = "obj"  -> <<LBRACE>> \o StringifyItems(v, 1) \o <<RBRACE>>

\* The number of straight double quotes before position i.
RECURSIVE QuotesBefore(_, _)
QuotesBefore(txt, i) ==
  IF i <= 1 THEN 0
  ELSE QuotesBefore(txt, i - 1) + (IF txt[i - 1] = DQ THEN 1 ELSE 0)

\* txt with its straight double quotes replaced by an opening and a
\* closing typographic quote in turn.
Curly(txt, opening, closing) ==
  [i \in 1..Len(txt) |->
     IF txt[i] # DQ THEN txt[i]
     ELSE IF QuotesBefore(txt, i) % 2 = 0 THEN opening ELSE closing]

Styled(txt, style) ==
  CASE style = "straight"    -> txt
    [] style = "curlyDouble" -> Curly(txt, LDQ, RDQ)
    [] style = "curlySingle" -> Curly(txt, LSQ, RSQ)

\* txt in a fenced code block tagged json, one line break on each side.
Fenced(txt) == <<FENCE, JSONTAG, NL>> \o txt \o <<NL, FENCE>>

\* Characters of the strings inside the values, and the strings.
StrChars == {LETTER, LDQ, RBRACE, FENCE}
Strings  == SeqsUpTo(StrChars, MaxStrLen)

Atoms ==
  {JNull, JTrue, JNum(1), JNum(11), JStr(<<>>), JStr(<<LETTER>>),
   JArr(<<>>), JArr(<<JNum(1)>>)}

Objects ==
  {JObj(<<>>, <<>>), JObj(<<<<>>, <<LETTER>>>>, <<JNum(1), JNull>>)}
    \cup {JObj(<<k>>, <<v>>) :
            k \in {<<>>, <<LETTER>>},
            v \in {JStr(cs) : cs \in Strings}
                    \cup {JNull, JNum(1), JArr(<<JNum(1)>>),
                          JObj(<<>>, <<>>), JObj(<<<<LETTER>>>>, <<JNum(1)>>)}}

\* What the model writes before and after the value.
Leading ==
  {<<>>, <<NL>>, <<LETTER, SP>>, <<LBRACK>>, <<LDQ>>, <<DQ>>,
   <<FENCE, DIGIT, FENCE, SP>>}

Trailing ==
  {<<>>, <<NL>>, <<SP, LETTER>>, <<RBRACK>>, <<RDQ>>, <<DQ>>, <<SP, RBRACE>>}

Texts ==
  {pre \o core \o post :
     pre \in Leading, post \in Trailing,
     core \in UNION {{Styled(Stringify(v), st), Fenced(Styled(Stringify(v), st))} :
                       v \in Objects \cup Atoms,
                       st \in {"straight", "curlyDouble", "curlySingle"}}}
    \cup {<<>>, <<LETTER>>, <<LBRACE>>, <<RBRACE, LBRACE>>}

\* A few texts for the runs that explore the race.
SampleObject == JObj(<<<<LETTER>>>>, <<JNum(1)>>)

SampleTexts ==
  {Stringify(SampleObject),
   Fenced(Stringify(SampleObject)),
   <<LETTER, SP>> \o Stringify(SampleObject),
   Styled(Stringify(SampleObject), "curlyDouble"),
   Stringify(JNum(1)),
   <<LETTER>>}

\* A request that passes validation and whose prompt renders.
SampleBody ==
  [name |-> "value", age |-> "value", position |-> "value", level |-> "value",
   improvement |-> "value",
   availableDays |->
     [kind |-> "array",
      slots |-> <<[day |-> "monday", hours |-> 1, timeOfDay |-> "array"]>>]]

\* ------------------------------------------------------------------------
\* Specifications
\* ------------------------------------------------------------------------
Init == InitWith(SampleTexts, Bodies)

Next ==
  \/ RejectMissing
  \/ PromptThrows
  \/ StartRace
  \/ ModelFulfil
  \/ ModelTextThrows
  \/ ModelReject
  \/ TimerFire
  \/ Tick

Spec == Init /\ [][Next]_vars

\* The event loop runs a due timer's callback and time does not stop.
SpecLive == Spec /\ WF_vars(TimerFire) /\ WF_vars(Tick)

\* The recovery of every text of Texts: one request, answered by the model
\* before the timer is due.
InitParse == InitWith(Texts, {SampleBody})

NextParse ==
  \/ StartRace
  \/ ModelFulfil

SpecParse == InitParse /\ [][NextParse]_vars

\* ------------------------------------------------------------------------
\* Properties
\* ------------------------------------------------------------------------
\* The handler has returned after sending exactly one response.
Answered == pc = "done" /\ sent = 1

\* The model's text was read and the handler answered from it.
AnsweredFromText == Answered /\ race = "call" /\ outcome = "text"

\* The three recovery strategies, each on its own input.
Strategy1(text) == JSONParse(IF FenceMatch(text).found
                               THEN FenceMatch(text).interior ELSE text)
Strategy2(text) == JSONParse(Sanitize(IF FenceMatch(text).found
                                        THEN FenceMatch(text).interior ELSE text))
Strategy3(text) ==
  LET first == IndexFrom(text, LBRACE, 1)
      last  == LastIndex(text, RBRACE, Len(text))
  IN  IF first # 0 /\ first < last
        THEN JSONParse(SubSeq(text, first, last))
        ELSE PFail

\* C1: a request body in which name, age, position, level or improvement is
\* absent or falsy, or availableDays is absent or an empty array, is answered
\* with status 400 and the body {error: "Missing required fields"}, and
\* generateContent is never invoked for it.
C1_Incomplete(b) ==
  \/ \E v \in {b.name, b.age, b.position, b.level, b.improvement} :
       v \in {"undefined", "", "0"}
  \/ b.availableDays.kind = "undefined"
  \/ (b.availableDays.kind = "array" /\ b.availableDays.slots = <<>>)

C1_MissingFieldsRejected ==
  C1_Incomplete(body) =>
    /\ modelCalls = 0
    /\ call = "none"
    /\ pc = "done" =>
         /\ sent = 1
         /\ response.status = 400
         /\ response.error = "Missing required fields"
         /\ response.details = ""

C1_Witness ==
  /\ pc = "done"
  /\ body.availableDays = [kind |-> "array", slots |-> <<>>]
  /\ ~\E v \in {body.name, body.age, body.position, body.level, body.improvement} :
        v \in {"undefined", "", "0"}
  /\ response.status = 400
  /\ modelCalls = 0

\* C2: when generateContent rejects, or reading the result's text throws,
\* before the timer has fired, the response is status 500 with the error
\* "Failed to generate workout plan" and the underlying message (or
\* "Unknown error") as details, not 504.
C2_ModelFailureIsInternalError ==
  (Answered /\ race = "call" /\ outcome \in {"rejected", "textThrows"}) =>
    /\ response.status = 500
    /\ response.error = "Failed to generate workout plan"
    /\ response.details \in {"fetch failed", "Unknown error"}

\* C3: while the model call has not settled, a response is sent exactly when
\* the timer has fired, the timer fires API_TIMEOUT ms after it was armed
\* (within one clock step), that response is the 504 "Request timed out"
\* response, and a pending call leads to the call settling or to that
\* response.
C3_TimeoutResponds ==
  /\ [](call = "pending" =>
          /\ (sent >= 1) <=> (timer = "fired")
          /\ timer = "fired" =>
               /\ sent = 1
               /\ pc = "done"
               /\ firedAt >= 50000
               /\ firedAt < 50000 + TickMs
               /\ response.status = 504
               /\ response.error = "Request timed out"
               /\ response.details =
                    "The workout plan generation is taking too long. Please try again.")
  /\ (call = "pending") ~> (call # "pending" \/ response.status = 504)

C3_Witness ==
  /\ call = "pending"
  /\ timer = "fired"
  /\ response.status = 504
  /\ ~MissingFields(body)

\* C4: the promise that settles first decides the response.  When the call
\* settles first with a text, the response is the one recovered from the
\* text (200, or the format-error 500); when the timer fires first, the
\* response is the 504; at most one response is sent, and once sent it is
\* never changed, whatever settles later.
C4_FirstSettledDecides ==
  /\ [](/\ sent <= 1
        /\ (race = "call" /\ outcome = "text") =>
             /\ sent = 1
             /\ \/ /\ Strategy1(modelText).ok
                   /\ response = OkResponse(Strategy1(modelText).v)
                \/ /\ ~Strategy1(modelText).ok
                   /\ Strategy2(modelText).ok
                   /\ response = OkResponse(Strategy2(modelText).v)
                \/ /\ ~Strategy1(modelText).ok
                   /\ ~Strategy2(modelText).ok
                   /\ Strategy3(modelText).ok
                   /\ response = OkResponse(Strategy3(modelText).v)
                \/ /\ ~Strategy1(modelText).ok
                   /\ ~Strategy2(modelText).ok
                   /\ ~Strategy3(modelText).ok
                   /\ response.status = 500
                   /\ response.error = "Failed to generate a valid workout plan"
        /\ race = "timer" =>
             /\ sent = 1
             /\ response.status = 504
             /\ response.error = "Request timed out")
  /\ [][sent >= 1 => (response' = response /\ sent' = sent /\ race' = race)]_vars

C4_Witness ==
  /\ race = "timer"
  /\ call = "fulfilled"
  /\ outcome = "text"
  /\ sent = 1
  /\ response.status = 504

\* C5: a 200 response is sent only when the value recovered from the
\* model's text is a JSON object.
C5_OnlyObjectsAnswered200 ==
  (Answered /\ response.status = 200) => response.json.t = "obj"

\* C6: when the model's text is the serialization of a JSON object O in a
\* fenced block tagged json, the response is status 200 with a body equal
\* to O.
C6_Interior(text) == SubSeq(text, 4, Len(text) - 2)

C6_IsFencedObject(text) ==
  /\ Len(text) >= 5
  /\ text = Fenced(C6_Interior(text))
  /\ JSONParse(C6_Interior(text)).ok
  /\ JSONParse(C6_Interior(text)).v.t = "obj"
  /\ Stringify(JSONParse(C6_Interior(text)).v) = C6_Interior(text)

C6_FencedRoundTrip ==
  (AnsweredFromText /\ C6_IsFencedObject(modelText)) =>
    response = OkResponse(JSONParse(C6_Interior(modelText)).v)

\* C7: when the model's text holds a JSON object whose straight quotes are
\* all replaced by curly double quotes, or all by curly single quotes, alone
\* or between plain prose, the response is status 200 with that object.
C7_Uncurl(txt) ==
  [i \in 1..Len(txt) |-> IF txt[i] \in {LDQ, RDQ, LSQ, RSQ} THEN DQ ELSE txt[i]]

C7_PlainProse(txt) == \A i \in 1..Len(txt) : txt[i] \in {LETTER, SP, NL}

C7_IsCurlyObject(text) ==
  LET first == IndexFrom(text, LBRACE, 1)
      last  == LastIndex(text, RBRACE, Len(text))
      span  == SubSeq(text, first, last)
      obj   == JSONParse(C7_Uncurl(span))
  IN  /\ first # 0
      /\ first < last
      /\ C7_PlainProse(SubSeq(text, 1, first - 1))
      /\ C7_PlainProse(SubSeq(text, last + 1, Len(text)))
      /\ obj.ok
      /\ \E st \in {"curlyDouble", "curlySingle"} :
           /\ span = Styled(Stringify(obj.v), st)
           /\ span # Stringify(obj.v)

C7_Object(text) ==
  JSONParse(C7_Uncurl(SubSeq(text, IndexFrom(text, LBRACE, 1),
                             LastIndex(text, RBRACE, Len(text))))).v

C7_CurlyQuotesRecovered ==
  (AnsweredFromText /\ C7_IsCurlyObject(modelText)) =>
    response = OkResponse(C7_Object(modelText))

\* C8: when the model's text is prose around exactly one well-formed {...}
\* span, the response is status 200 with the value of that span.
C8_Spans(text) ==
  {ij \in (1..Len(text)) \X (1..Len(text)) :
     /\ text[ij[1]] = LBRACE
     /\ text[ij[2]] = RBRACE
     /\ ij[1] < ij[2]
     /\ JSONParse(SubSeq(text, ij[1], ij[2])).ok}

C8_OneSpanInProse(text) ==
  /\ Cardinality(C8_Spans(text)) = 1
  /\ \E ij \in C8_Spans(text) : ij[1] > 1 \/ ij[2] < Len(text)

C8_SpanValue(text) ==
  LET ij == CHOOSE x \in C8_Spans(text) : TRUE
  IN  JSONParse(SubSeq(text, ij[1], ij[2])).v

C8_AnySpanRecovered ==
  (AnsweredFromText /\ C8_OneSpanInProse(modelText)) =>
    response = OkResponse(C8_SpanValue(modelText))

\* C8 as amended: the same, for a text without a code fence whose prose
\* holds no brace, no square bracket and no double quote, straight or curly.
C8_CleanProse(text) ==
  LET ij == CHOOSE x \in C8_Spans(text) : TRUE
  IN  /\ \A i \in 1..Len(text) : text[i] # FENCE
      /\ \A i \in (1..(ij[1] - 1)) \cup ((ij[2] + 1)..Len(text)) :
           text[i] \notin {LBRACE, RBRACE, LBRACK, RBRACK, DQ, LDQ, RDQ}

C8_BraceScan ==
  (AnsweredFromText /\ C8_OneSpanInProse(modelText) /\ C8_CleanProse(modelText)) =>
    response = OkResponse(C8_SpanValue(modelText))

C8_Witness ==
  /\ AnsweredFromText
  /\ C8_OneSpanInProse(modelText)
  /\ C8_CleanProse(modelText)
  /\ ~Strategy1(modelText).ok
  /\ ~Strategy2(modelText).ok
  /\ modelText[1] = LETTER
  /\ modelText[Len(modelText)] = LETTER
  /\ response.status = 200

\* C9: when none of the three strategies yields a value from the model's
\* text, the handler returns after one response, status 500 with the
\* format-error body.
C9_UnrecoverableIsFormatError ==
  (pc = "done" /\ race = "call" /\ outcome = "text"
     /\ ~Strategy1(modelText).ok
     /\ ~Strategy2(modelText).ok
     /\ ~Strategy3(modelText).ok) =>
    /\ sent = 1
    /\ response.status = 500
    /\ response.error = "Failed to generate a valid workout plan"
    /\ response.details = "The AI generated an invalid response format"

C9_Witness ==
  /\ AnsweredFromText
  /\ ~Strategy1(modelText).ok
  /\ ~Strategy2(modelText).ok
  /\ IndexFrom(modelText, LBRACE, 1) # 0
  /\ IndexFrom(modelText, LBRACE, 1) < LastIndex(modelText, RBRACE, Len(modelText))
  /\ ~Strategy3(modelText).ok
  /\ response.status = 500

\* C10: the body of the response is the value of the first strategy that
\* succeeds, in the order fence interior (or whole text), the same after
\* quote replacement, span from the first "{" to the last "}" of the raw
\* text; the fallback is entered (and logged) only when the first two both
\* failed.
C10_StrategyOrder ==
  AnsweredFromText =>
    IF Strategy1(modelText).ok
      THEN response = OkResponse(Strategy1(modelText).v) /\ log = <<>>
    ELSE IF Strategy2(modelText).ok
      THEN response = OkResponse(Strategy2(modelText).v) /\ log = <<>>
    ELSE /\ Len(log) >= 2
         /\ log[1] = "Error parsing Gemini response as JSON:"
         /\ IF Strategy3(modelText).ok
              THEN response = OkResponse(Strategy3(modelText).v)
              ELSE response.status = 500

C10_Witness ==
  /\ AnsweredFromText
  /\ FenceMatch(modelText).found
  /\ Strategy1(modelText).ok
  /\ Strategy3(modelText).ok
  /\ Strategy3(modelText).v # Strategy1(modelText).v
  /\ response = OkResponse(Strategy1(modelText).v)

====
